---- MODULE Spec2Model ----
(***************************************************************************)
(* The two-finger pinch recognizer of pixi-viewport (src/plugins/Pinch.ts) *)
(* as a state machine: the recognizer's fields, the input manager's touch  *)
(* list, the viewport's scale and position, and one action per handler.    *)
(*                                                                         *)
(* Arithmetic is exact.  A number is a rational, or a rational plus a      *)
(* rational multiple of 1/epsilon, where epsilon is the 0.0000000001 that  *)
(* move() substitutes for a zero distance: 1/epsilon = 10^10 exceeds every *)
(* integer TLC can hold, so it is carried as a symbol.                     *)
(***************************************************************************)
EXTENDS Integers, Sequences, FiniteSets, TLC

\* null (and undefined): a record unlike every other value of the model.
Null == [null |-> TRUE]

(***************************************************************************)
(* Rationals <<n, d>> in lowest terms with d > 0.                          *)
(***************************************************************************)
Abs(i) == IF i < 0 THEN -i ELSE i

RECURSIVE Gcd(_, _)
Gcd(i, j) == IF j = 0 THEN i ELSE Gcd(j, i % j)

Q(n, d) ==
    LET s == IF d < 0 THEN -1 ELSE 1
        g == Gcd(Abs(n), Abs(d))
    IN  [n |-> (s * n) \div g, d |-> (s * d) \div g]

QInt(i) == [n |-> i, d |-> 1]
QZero == QInt(0)
QOne == QInt(1)
QAdd(p, q) == Q(p.n * q.d + q.n * p.d, p.d * q.d)
QNeg(p) == [n |-> -p.n, d |-> p.d]
QSub(p, q) == QAdd(p, QNeg(q))
QMul(p, q) == Q(p.n * q.n, p.d * q.d)
QDiv(p, q) == Q(p.n * q.d, p.d * q.n)
QSign(p) == IF p.n > 0 THEN 1 ELSE IF p.n < 0 THEN -1 ELSE 0

(***************************************************************************)
(* Numbers fin + inf/epsilon.  ok = FALSE marks a value this form cannot   *)
(* hold (a product or quotient of two values that both carry 1/epsilon, or  *)
(* a value computed from a numerator or denominator above MaxMagnitude);   *)
(* the actions are not taken where such a value would be stored.           *)
(***************************************************************************)
\* Numerators and denominators up to MaxMagnitude are computed with: their
\* products and the sums of two such products stay below 2^31.
MaxMagnitude == 30000
Fits(u) ==
    /\ u.ok
    /\ Abs(u.fin.n) <= MaxMagnitude /\ u.fin.d <= MaxMagnitude
    /\ Abs(u.inf.n) <= MaxMagnitude /\ u.inf.d <= MaxMagnitude

N(f, i) == [fin |-> f, inf |-> i, ok |-> TRUE]
NaN == [fin |-> QZero, inf |-> QZero, ok |-> FALSE]
NRat(q) == N(q, QZero)
NInt(i) == NRat(QInt(i))
IsRat(u) == u.ok /\ u.inf = QZero

NAdd(u, v) == IF Fits(u) /\ Fits(v) THEN N(QAdd(u.fin, v.fin), QAdd(u.inf, v.inf)) ELSE NaN
NNeg(u) == IF u.ok THEN N(QNeg(u.fin), QNeg(u.inf)) ELSE NaN
NSub(u, v) == NAdd(u, NNeg(v))
NMul(u, v) ==
    IF ~(Fits(u) /\ Fits(v)) THEN NaN
    ELSE IF u.inf = QZero THEN N(QMul(u.fin, v.fin), QMul(u.fin, v.inf))
    ELSE IF v.inf = QZero THEN N(QMul(u.fin, v.fin), QMul(u.inf, v.fin))
    ELSE NaN
\* u / v: v rational and non-zero, or u a rational multiple of v.
NDiv(u, v) ==
    IF ~(Fits(u) /\ Fits(v)) THEN NaN
    ELSE IF v.inf = QZero
         THEN IF v.fin = QZero THEN NaN
              ELSE N(QDiv(u.fin, v.fin), QDiv(u.inf, v.fin))
    ELSE IF QMul(u.fin, v.inf) = QMul(u.inf, v.fin)
         THEN NRat(QDiv(u.inf, v.inf))
    ELSE NaN
\* The sign of fin + inf * 10^10: every numerator and denominator is below
\* 2^31 < 10^10, so a non-zero inf term outweighs the fin term.
NSign(u) == IF u.inf # QZero THEN QSign(u.inf) ELSE QSign(u.fin)
NLess(u, v) == NSign(NSub(u, v)) < 0

\* Math.sqrt on the squared distances of Grid, all of them perfect squares.
Sqrt(i) == CHOOSE r \in 0..i : r * r = i

(***************************************************************************)
(* Bounds of the model.                                                    *)
(***************************************************************************)
\* The touch list holds at most MaxTouches contacts, with ids 1..MaxTouches;
\* events also come from pointer id 0, a pointer that is no touch.
MaxTouches == 3
\* move() commits at most MaxCommits transform updates in one behaviour, at
\* most SpecCommits where up to MaxTouches fingers use the default options,
\* and at most ZoomCommits on the finer grid.
MaxCommits == 2
SpecCommits == 1
ZoomCommits == 1

\* Positions a pointer event can report, in the space of the viewport's
\* parent.  All pairwise distances are integers: 0 and 5 in Grid; 0, 5, 12
\* and 13 in ZoomGrid, where a distance can grow, shrink, and shrink to less
\* than half (13 to 5, 12 to 5) without ever halving exactly.
Pt(px, py) == [x |-> px, y |-> py]
Grid == {Pt(0, 0), Pt(3, 4)}
ZoomGrid == {Pt(0, 0), Pt(5, 0), Pt(5, 12)}
\* The touches of the specifications that have exactly two fingers.
TwoFingers == {1, 2}
TouchIds == 1..MaxTouches

(***************************************************************************)
(* Options (IPinchOptions with DEFAULT_PINCH_OPTIONS applied).             *)
(***************************************************************************)
DEFAULT_PINCH_OPTIONS ==
    [noDrag |-> FALSE, percent |-> QOne, center |-> Null, factor |-> QOne,
     axis |-> "all"]

\* The point given as options.center where one is given.
CenterPoint == [x |-> QInt(1), y |-> QInt(2)]
\* Half of the viewport's screenWidth and screenHeight.
ScreenHalf == [x |-> QInt(4), y |-> QInt(3)]

VARIABLES
    options,     \* this.options
    clampZoom,   \* whether parent.plugins.get('clamp-zoom') finds a plugin
    paused,      \* Plugin.paused
    active,      \* this.active
    pinching,    \* this.pinching
    moved,       \* this.moved
    lastCenter,  \* this.lastCenter
    touches,     \* parent.input.touches: sequence of [id, last]
    scale,       \* parent.scale: [x, y]
    position,    \* parent.x, parent.y: [x, y]
    op,          \* the handler that ran last
    ret,         \* its return value
    trace,       \* what it did to the viewport and emitted, in order
    last,        \* the value of move()'s local `last` in that call
    commits,     \* transform updates committed so far
    fresh,       \* a recognizer constructed at the last reset, or Null
    centerPair   \* the ids of the tracked contacts when lastCenter was written

vars == <<options, clampZoom, paused, active, pinching, moved, lastCenter,
          touches, scale, position, op, ret, trace, last, commits, fresh,
          centerPair>>

\* The recognizer with its collaborators as one value.
World ==
    [options |-> options, clampZoom |-> clampZoom, paused |-> paused,
     active |-> active, pinching |-> pinching, moved |-> moved,
     lastCenter |-> lastCenter, touches |-> touches, scale |-> scale,
     position |-> position]

\* parent.input.count()
count(w) == Len(w.touches)

(***************************************************************************)
(* down()                                                                  *)
(***************************************************************************)
\* Faulty variant of downResult: `count() >= 1`.
downResultAtOne(w) ==
    IF count(w) >= 1
    THEN [w |-> [w EXCEPT !.active = TRUE], ret |-> TRUE, trace |-> <<>>,
          last |-> Null]
    ELSE [w |-> w, ret |-> FALSE, trace |-> <<>>, last |-> Null]

downResult(w) ==
    IF count(w) >= 2
    THEN [w |-> [w EXCEPT !.active = TRUE], ret |-> TRUE, trace |-> <<>>,
          last |-> Null]
    ELSE [w |-> w, ret |-> FALSE, trace |-> <<>>, last |-> Null]

isAxisX(w) == w.options.axis \in {"all", "x"}
isAxisY(w) == w.options.axis \in {"all", "y"}

(***************************************************************************)
(* Collaborators of move().                                                *)
(***************************************************************************)
\* (parent.parent || parent).toLocal(e.global): the viewport's parent is
\* placed at the origin of the global space, unscaled.
eventToLocal(global) == global

\* Math.sqrt(Math.pow(b.x - a.x, 2) + Math.pow(b.y - a.y, 2))
Distance(a, b) == Sqrt((b.x - a.x) * (b.x - a.x) + (b.y - a.y) * (b.y - a.y))

\* new Point(a.x + (b.x - a.x) / 2, a.y + (b.y - a.y) / 2)
Midpoint(a, b) ==
    [x |-> QAdd(QInt(a.x), Q(b.x - a.x, 2)),
     y |-> QAdd(QInt(a.y), Q(b.y - a.y, 2))]

\* last / dist after `dist = dist === 0 ? 0.0000000001 : dist`.
lastOverDist(l, dist) ==
    IF dist = 0 THEN N(QZero, l) ELSE NRat(QDiv(l, QInt(dist)))

\* Faulty variant of scaleChange: the y scale unless only the x axis is active.
scaleChangeFromY(w, l, dist) ==
    NMul(NMul(NSub(NInt(1), lastOverDist(l, dist)), NRat(w.options.percent)),
         IF w.options.axis = "x" THEN w.scale.x ELSE w.scale.y)

\* (1 - last / dist) * percent * (isAxisX() ? scale.x : scale.y)
scaleChange(w, l, dist) ==
    NMul(NMul(NSub(NInt(1), lastOverDist(l, dist)), NRat(w.options.percent)),
         IF isAxisX(w) THEN w.scale.x ELSE w.scale.y)

\* Faulty variant of zoomedScale: both axes written whatever options.axis is.
zoomedScaleBoth(w, change) ==
    [x |-> NAdd(w.scale.x, change), y |-> NAdd(w.scale.y, change)]

\* scale.x += change on the x axis, scale.y += change on the y axis
zoomedScale(w, change) ==
    [x |-> IF isAxisX(w) THEN NAdd(w.scale.x, change) ELSE w.scale.x,
     y |-> IF isAxisY(w) THEN NAdd(w.scale.y, change) ELSE w.scale.y]

\* The clamp-zoom plugin's clamp(): each scale is brought into
\* [ClampMin, ClampMax].
ClampMin == NRat(Q(1, 2))
ClampMax == NRat(Q(3, 2))
clampOne(u) ==
    IF NLess(u, ClampMin) THEN ClampMin
    ELSE IF NLess(ClampMax, u) THEN ClampMax ELSE u
clamp(s) == [x |-> clampOne(s.x), y |-> clampOne(s.y)]

\* Viewport.moveCenter(c): position = (worldScreenWidth / 2 - c.x) * scale.x
\* with worldScreenWidth = screenWidth / scale.x, and the same in y.
moveCenter(s, c) ==
    [x |-> NSub(NRat(ScreenHalf.x), NMul(NRat(c.x), s.x)),
     y |-> NSub(NRat(ScreenHalf.y), NMul(NRat(c.y), s.y))]

\* oldPoint = parent.toLocal(point, parent.parent) under scale s0, then
\* newPoint = parent.parent.toLocal(oldPoint, parent) under scale s1, the
\* position pos being the same in both:
\*   newPoint = ((point - pos) / s0) * s1 + pos,
\* computed as (point - pos) * (s1 / s0) + pos.
anchorAfterZoom(point, pos, s0, s1) ==
    [x |-> NAdd(NMul(NSub(NRat(point.x), pos.x), NDiv(s1.x, s0.x)), pos.x),
     y |-> NAdd(NMul(NSub(NRat(point.y), pos.y), NDiv(s1.y, s0.y)), pos.y)]

\* parent.x += (a.x - b.x) * factor; parent.y += (a.y - b.y) * factor
translated(w, pos, a, b) ==
    [x |-> NAdd(pos.x, NMul(NSub(a.x, b.x), NRat(w.options.factor))),
     y |-> NAdd(pos.y, NMul(NSub(a.y, b.y), NRat(w.options.factor)))]

NPoint(p) == [x |-> NRat(p.x), y |-> NRat(p.y)]

(***************************************************************************)
(* move(e), e = [pointerId, global]                                        *)
(***************************************************************************)
\* first.last && second.last ? distance : null
lastDistance(first, second) ==
    IF first.last # Null /\ second.last # Null
    THEN QInt(Distance(first.last, second.last))
    ELSE Null

\* Faulty variant of recorded: the position goes to the first contact, whatever the id.
recordedToFirst(pointers, e) == [pointers EXCEPT ![1].last = eventToLocal(e.global)]

\* The touches after `first.last = {x, y}` / `else second.last = {x, y}`.
recorded(pointers, e) ==
    LET xy == eventToLocal(e.global)
    IN  IF pointers[1].id = e.pointerId
        THEN [pointers EXCEPT ![1].last = xy]
        ELSE IF pointers[2].id = e.pointerId
        THEN [pointers EXCEPT ![2].last = xy]
        ELSE pointers

\* if (last): null and 0 are both falsy.
hasLast(l) == l # Null /\ l # QZero

\* Faulty variant of dragsCenter: the test of options.noDrag left out.
dragsCenterIgnoresNoDrag(w) == w.lastCenter # Null

\* if (!this.options.noDrag && this.lastCenter)
dragsCenter(w) == ~w.options.noDrag /\ w.lastCenter # Null

\* Faulty variant of commitResult: clamp() called after the translations.
commitResultClampLast(w, l, pointers) ==
    LET point == Midpoint(pointers[1].last, pointers[2].last)
        dist == Distance(pointers[1].last, pointers[2].last)
        zoomed == zoomedScale(w, scaleChange(w, l, dist))
        anchored ==
            IF w.options.center # Null
            THEN moveCenter(zoomed, w.options.center)
            ELSE translated(w, w.position, NPoint(point),
                            anchorAfterZoom(point, w.position, w.scale, zoomed))
        dragged ==
            IF dragsCenter(w)
            THEN translated(w, anchored, NPoint(point), NPoint(w.lastCenter))
            ELSE anchored
    IN  [w |-> [w EXCEPT !.touches = pointers,
                         !.scale = IF w.clampZoom THEN clamp(zoomed) ELSE zoomed,
                         !.position = dragged, !.lastCenter = point,
                         !.moved = TRUE],
         ret |-> TRUE,
         trace |-> <<"scale", "zoomed">>
                   \o (IF w.options.center # Null THEN <<"moveCenter">>
                       ELSE <<"position", "moved">>)
                   \o (IF dragsCenter(w) THEN <<"position", "moved">> ELSE <<>>)
                   \o (IF w.clampZoom THEN <<"clamp">> ELSE <<>>)
                   \o <<"lastCenter">>,
         last |-> l]

\* The body of `if (last) { ... }`: the committed transform update.
commitResult(w, l, pointers) ==
    LET point == Midpoint(pointers[1].last, pointers[2].last)
        dist == Distance(pointers[1].last, pointers[2].last)
        zoomed == zoomedScale(w, scaleChange(w, l, dist))
        clamped == IF w.clampZoom THEN clamp(zoomed) ELSE zoomed
        anchored ==
            IF w.options.center # Null
            THEN moveCenter(clamped, w.options.center)
            ELSE translated(w, w.position, NPoint(point),
                            anchorAfterZoom(point, w.position, w.scale, clamped))
        dragged ==
            IF dragsCenter(w)
            THEN translated(w, anchored, NPoint(point), NPoint(w.lastCenter))
            ELSE anchored
    IN  [w |-> [w EXCEPT !.touches = pointers, !.scale = clamped,
                         !.position = dragged, !.lastCenter = point,
                         !.moved = TRUE],
         ret |-> TRUE,
         trace |-> <<"scale", "zoomed">>
                   \o (IF w.clampZoom THEN <<"clamp">> ELSE <<>>)
                   \o (IF w.options.center # Null THEN <<"moveCenter">>
                       ELSE <<"position", "moved">>)
                   \o (IF dragsCenter(w) THEN <<"position", "moved">> ELSE <<>>)
                   \o <<"lastCenter">>,
         last |-> l]

\* Faulty variants of startResult: pinch-start without the `!this.pinching` test;
\* `this.moved = true` set with pinching.
startResultAlways(w, l, pointers) ==
    [w |-> [w EXCEPT !.touches = pointers, !.pinching = TRUE],
     ret |-> TRUE, trace |-> <<"pinch-start">>, last |-> l]
startResultMarksMoved(w, l, pointers) ==
    IF ~w.pinching
    THEN [w |-> [w EXCEPT !.touches = pointers, !.pinching = TRUE, !.moved = TRUE],
          ret |-> TRUE, trace |-> <<"pinch-start">>, last |-> l]
    ELSE [w |-> [w EXCEPT !.touches = pointers],
          ret |-> TRUE, trace |-> <<>>, last |-> l]

\* The `else if (!this.pinching) { ... }` after it, and the `return true`.
startResult(w, l, pointers) ==
    IF ~w.pinching
    THEN [w |-> [w EXCEPT !.touches = pointers, !.pinching = TRUE],
          ret |-> TRUE, trace |-> <<"pinch-start">>, last |-> l]
    ELSE [w |-> [w EXCEPT !.touches = pointers],
          ret |-> TRUE, trace |-> <<>>, last |-> l]

\* Faulty variant of moveResult: the test of this.paused left out.
moveResultIgnoresPause(w, e) ==
    IF ~w.active
    THEN [w |-> w, ret |-> FALSE, trace |-> <<>>, last |-> Null]
    ELSE IF Len(w.touches) >= 2
    THEN LET l == lastDistance(w.touches[1], w.touches[2])
             pointers == recorded(w.touches, e)
         IN  IF hasLast(l) THEN commitResult(w, l, pointers)
             ELSE startResult(w, l, pointers)
    ELSE [w |-> w, ret |-> FALSE, trace |-> <<>>, last |-> Null]

\* Faulty variant of moveResult: the test of this.active left out.
moveResultIgnoresActive(w, e) ==
    IF w.paused
    THEN [w |-> w, ret |-> FALSE, trace |-> <<>>, last |-> Null]
    ELSE IF Len(w.touches) >= 2
    THEN LET l == lastDistance(w.touches[1], w.touches[2])
             pointers == recorded(w.touches, e)
         IN  IF hasLast(l) THEN commitResult(w, l, pointers)
             ELSE startResult(w, l, pointers)
    ELSE [w |-> w, ret |-> FALSE, trace |-> <<>>, last |-> Null]

moveResult(w, e) ==
    IF w.paused \/ ~w.active
    THEN [w |-> w, ret |-> FALSE, trace |-> <<>>, last |-> Null]
    ELSE IF Len(w.touches) >= 2
    THEN LET l == lastDistance(w.touches[1], w.touches[2])
             pointers == recorded(w.touches, e)
         IN  IF hasLast(l) THEN commitResult(w, l, pointers)
             ELSE startResult(w, l, pointers)
    ELSE [w |-> w, ret |-> FALSE, trace |-> <<>>, last |-> Null]

(***************************************************************************)
(* up()                                                                    *)
(***************************************************************************)
\* Faulty variant of fewRemain: `<= 2`.
fewRemainOrTwo(w) == Len(w.touches) <= 2

\* this.parent.input.touches.length <= 1
fewRemain(w) == Len(w.touches) <= 1

\* Faulty variant of upResult: `this.lastCenter = null` left out.
upResultKeepsCenter(w) ==
    IF w.pinching /\ fewRemain(w)
    THEN [w |-> [w EXCEPT !.active = FALSE, !.pinching = FALSE, !.moved = FALSE],
          ret |-> TRUE, trace |-> <<"pinch-end">>, last |-> Null]
    ELSE [w |-> w, ret |-> FALSE, trace |-> <<>>, last |-> Null]

\* Faulty variant of upResult: the test of this.pinching left out.
upResultNotPinching(w) ==
    IF fewRemain(w)
    THEN [w |-> [w EXCEPT !.active = FALSE, !.lastCenter = Null,
                          !.pinching = FALSE, !.moved = FALSE],
          ret |-> TRUE, trace |-> <<"pinch-end">>, last |-> Null]
    ELSE [w |-> w, ret |-> FALSE, trace |-> <<>>, last |-> Null]

upResult(w) ==
    IF w.pinching /\ fewRemain(w)
    THEN [w |-> [w EXCEPT !.active = FALSE, !.lastCenter = Null,
                          !.pinching = FALSE, !.moved = FALSE],
          ret |-> TRUE, trace |-> <<"pinch-end">>, last |-> Null]
    ELSE [w |-> w, ret |-> FALSE, trace |-> <<>>, last |-> Null]

(***************************************************************************)
(* The input manager's touch list.                                         *)
(***************************************************************************)
touchIds(ts) == {ts[i].id : i \in 1..Len(ts)}
\* touches.push({ id, last: null })
pushed(ts, id) == Append(ts, [id |-> id, last |-> Null])
\* the list without the touch of that id
removed(ts, id) == SelectSeq(ts, LAMBDA t : t.id # id)

(***************************************************************************)
(* Initial states.                                                         *)
(***************************************************************************)
Percents == {QOne, Q(1, 2)}
Factors == {QOne, QInt(2)}
AllOptions ==
    [noDrag : BOOLEAN, percent : Percents, center : {Null, CenterPoint},
     factor : Factors, axis : {"all", "x", "y"}]
UnitScale == [x |-> NInt(1), y |-> NInt(1)]
UnequalScale == [x |-> NInt(1), y |-> NInt(2)]
Scales == {UnitScale, UnequalScale}

\* The fields of a recognizer as its declaration initialises them.
constructed(w) ==
    [w EXCEPT !.active = FALSE, !.pinching = FALSE, !.moved = FALSE,
              !.lastCenter = Null]

InitWith(opts, clamps, scales) ==
    /\ options \in opts
    /\ clampZoom \in clamps
    /\ scale \in scales
    /\ position = [x |-> NInt(0), y |-> NInt(0)]
    /\ paused = FALSE
    /\ active = FALSE
    /\ pinching = FALSE
    /\ moved = FALSE
    /\ lastCenter = Null
    /\ touches = <<>>
    /\ op = "input"
    /\ ret = FALSE
    /\ trace = <<>>
    /\ last = Null
    /\ commits = 0
    /\ fresh = Null
    /\ centerPair = Null

\* The default options, a clamp-zoom plugin registered, scale 1.
Init == InitWith({DEFAULT_PINCH_OPTIONS}, {TRUE}, {UnitScale})

(***************************************************************************)
(* Actions.                                                                *)
(***************************************************************************)
representable(w) ==
    /\ w.scale.x.ok /\ w.scale.y.ok
    /\ w.position.x.ok /\ w.position.y.ok

\* The state after a handler that returned r.
Returned(name, r) ==
    /\ active' = r.w.active
    /\ pinching' = r.w.pinching
    /\ moved' = r.w.moved
    /\ lastCenter' = r.w.lastCenter
    /\ touches' = r.w.touches
    /\ scale' = r.w.scale
    /\ position' = r.w.position
    /\ op' = name
    /\ ret' = r.ret
    /\ trace' = r.trace
    /\ last' = r.last
    /\ UNCHANGED <<options, clampZoom, paused>>

down ==
    /\ \E r \in {downResult(World)} : Returned("down", r)
    /\ UNCHANGED commits

move(e, maxCommits) ==
    \E r \in {moveResult(World, e)} :
        \E n \in {IF Len(r.trace) > 1 THEN 1 ELSE 0} :
            /\ commits + n <= maxCommits
            /\ representable(r.w)
            /\ Returned("move", r)
            /\ commits' = commits + n

up ==
    /\ \E r \in {upResult(World)} : Returned("up", r)
    /\ UNCHANGED commits

\* A pointer goes down: the input manager adds the touch.  Ids are opaque, so
\* a new touch takes the least id not in use.
addTouch(id) ==
    /\ id \notin touchIds(touches)
    /\ \A j \in 1..(id - 1) : j \in touchIds(touches)
    /\ Len(touches) < MaxTouches
    /\ touches' = pushed(touches, id)
    /\ op' = "input" /\ ret' = FALSE /\ trace' = <<>> /\ last' = Null
    /\ UNCHANGED <<options, clampZoom, paused, active, pinching, moved,
                   lastCenter, scale, position, commits>>

\* A pointer goes up: the input manager removes the touch.
removeTouch(id) ==
    /\ id \in touchIds(touches)
    /\ touches' = removed(touches, id)
    /\ op' = "input" /\ ret' = FALSE /\ trace' = <<>> /\ last' = Null
    /\ UNCHANGED <<options, clampZoom, paused, active, pinching, moved,
                   lastCenter, scale, position, commits>>

\* Plugin.pause() and Plugin.resume()
pause ==
    /\ ~paused
    /\ paused' = TRUE
    /\ op' = "input" /\ ret' = FALSE /\ trace' = <<>> /\ last' = Null
    /\ UNCHANGED <<options, clampZoom, active, pinching, moved, lastCenter,
                   touches, scale, position, commits>>

resume ==
    /\ paused
    /\ paused' = FALSE
    /\ op' = "input" /\ ret' = FALSE /\ trace' = <<>> /\ last' = Null
    /\ UNCHANGED <<options, clampZoom, active, pinching, moved, lastCenter,
                   touches, scale, position, commits>>

\* The pointer events over the touches ids and the positions grid; pointer
\* id 0 is a pointer that is no touch.
Events(ids, grid) == [pointerId : {0} \cup ids, global : grid]

NextOn(ids, grid, maxCommits) ==
    \/ down /\ UNCHANGED <<fresh, centerPair>>
    \/ \E e \in Events(ids, grid) :
          move(e, maxCommits) /\ UNCHANGED <<fresh, centerPair>>
    \/ up /\ UNCHANGED <<fresh, centerPair>>
    \/ \E id \in ids : addTouch(id) /\ UNCHANGED <<fresh, centerPair>>
    \/ \E id \in ids : removeTouch(id) /\ UNCHANGED <<fresh, centerPair>>

Pausing ==
    \/ pause /\ UNCHANGED <<fresh, centerPair>>
    \/ resume /\ UNCHANGED <<fresh, centerPair>>

\* Up to MaxTouches fingers on the two-point grid.
Next == NextOn(TouchIds, Grid, SpecCommits)
Spec == Init /\ [][Next]_vars

\* The same with pause() and resume().
PauseNext == Next \/ Pausing
PauseSpec == Init /\ [][PauseNext]_vars

\* Two fingers on the finer grid, no clamp-zoom plugin.
ZoomInit == InitWith({DEFAULT_PINCH_OPTIONS}, {FALSE}, {UnitScale})
ZoomNext == NextOn(TwoFingers, ZoomGrid, ZoomCommits)
ZoomSpec == ZoomInit /\ [][ZoomNext]_vars

\* The center option set, with and without two-finger dragging.
CenterInit ==
    InitWith({[DEFAULT_PINCH_OPTIONS EXCEPT !.center = CenterPoint, !.noDrag = d] :
                d \in BOOLEAN}, {FALSE}, {UnitScale})
CenterNext == NextOn(TouchIds, Grid, MaxCommits)
CenterSpec == CenterInit /\ [][CenterNext]_vars

\* Two fingers on the finer grid, no clamp-zoom plugin, every axis setting,
\* percent 1 and 1/2, unequal x and y scales.  The center option is
\* set and two-finger dragging is off, which makes the position a function
\* of the scale; the scale is computed before either option is read.
AxisInit ==
    InitWith({[DEFAULT_PINCH_OPTIONS EXCEPT !.axis = a, !.percent = p,
                                            !.center = CenterPoint,
                                            !.noDrag = TRUE] :
                a \in {"all", "x", "y"}, p \in Percents}, {FALSE}, {UnequalScale})
AxisNext == NextOn(TwoFingers, ZoomGrid, ZoomCommits)
AxisSpec == AxisInit /\ [][AxisNext]_vars

\* Two fingers, with and without the center option, two-finger dragging and
\* a clamp-zoom plugin.
DragInit ==
    InitWith({[DEFAULT_PINCH_OPTIONS EXCEPT !.center = c, !.noDrag = d] :
                c \in {Null, CenterPoint}, d \in BOOLEAN}, BOOLEAN, {UnitScale})
DragNext == NextOn(TwoFingers, Grid, MaxCommits)
DragSpec == DragInit /\ [][DragNext]_vars

(***************************************************************************)
(* A second recognizer, constructed when up() resets the first: same       *)
(* options, collaborators and viewport transform, the same contacts in the *)
(* list, none of whose positions it has recorded.  Every later call goes   *)
(* to both.                                                                *)
(***************************************************************************)
freshWorld(w) ==
    constructed([w EXCEPT !.touches =
                    [i \in 1..Len(w.touches) |-> [w.touches[i] EXCEPT !.last = Null]]])

freshAfter(r) == [w |-> r.w, ret |-> r.ret, trace |-> r.trace]

FreshNext ==
    \/ /\ down
       /\ fresh' = IF fresh = Null THEN Null ELSE freshAfter(downResult(fresh.w))
       /\ UNCHANGED centerPair
    \/ \E e \in Events(TouchIds, Grid) :
          /\ move(e, MaxCommits)
          /\ fresh' = IF fresh = Null THEN Null ELSE freshAfter(moveResult(fresh.w, e))
          /\ fresh' # Null => representable(fresh'.w)
          /\ UNCHANGED centerPair
    \/ /\ up
       /\ fresh' = IF ret' THEN [w |-> freshWorld(World'), ret |-> ret', trace |-> trace']
                   ELSE IF fresh = Null THEN Null
                   ELSE freshAfter(upResult(fresh.w))
       /\ UNCHANGED centerPair
    \/ \E id \in TouchIds :
          /\ addTouch(id)
          /\ fresh' = IF fresh = Null THEN Null
                      ELSE [fresh EXCEPT !.w.touches = pushed(@, id),
                                         !.ret = FALSE, !.trace = <<>>]
          /\ UNCHANGED centerPair
    \/ \E id \in TouchIds :
          /\ removeTouch(id)
          /\ fresh' = IF fresh = Null THEN Null
                      ELSE [fresh EXCEPT !.w.touches = removed(@, id),
                                         !.ret = FALSE, !.trace = <<>>]
          /\ UNCHANGED centerPair

FreshInit == InitWith({DEFAULT_PINCH_OPTIONS}, {FALSE}, {UnitScale})
FreshSpec == FreshInit /\ [][FreshNext]_vars

(***************************************************************************)
(* The contacts lastCenter belongs to: a history of the ids of the two     *)
(* tracked contacts at the move() that wrote lastCenter, Null while        *)
(* lastCenter is null.                                                     *)
(***************************************************************************)
trackedPair(ts) == <<ts[1].id, ts[2].id>>

pairAfter ==
    IF lastCenter' = Null THEN Null
    ELSE IF op' = "move" /\ Len(trace') > 1 THEN trackedPair(touches')
    ELSE centerPair

PairNext ==
    \/ down /\ centerPair' = pairAfter /\ UNCHANGED fresh
    \/ \E e \in Events(TouchIds, Grid) :
          move(e, MaxCommits) /\ centerPair' = pairAfter /\ UNCHANGED fresh
    \/ up /\ centerPair' = pairAfter /\ UNCHANGED fresh
    \/ \E id \in TouchIds :
          addTouch(id) /\ centerPair' = pairAfter /\ UNCHANGED fresh
    \/ \E id \in TouchIds :
          removeTouch(id) /\ centerPair' = pairAfter /\ UNCHANGED fresh

PairInit == InitWith({DEFAULT_PINCH_OPTIONS}, {FALSE}, {UnitScale})
PairSpec == PairInit /\ [][PairNext]_vars

(***************************************************************************)
(* Properties.                                                             *)
(***************************************************************************)
Emitted(t, name) == \E i \in 1..Len(t) : t[i] = name
\* The handler that ran last was a move() that committed a transform update.
Committed == op = "move" /\ Emitted(trace, "zoomed")
Idle == ~active /\ ~pinching /\ ~moved /\ lastCenter = Null
TwoTracked == Len(touches) >= 2
MissingLast == touches[1].last = Null \/ touches[2].last = Null

\* C1: after every up() that runs with fewer than 2 contacts in the list the
\* recognizer is in its initial state (active, pinching, moved false and
\* lastCenter null), whatever happened between down() and up().
C1_ResetOnSessionEnd == (op = "up" /\ Len(touches) < 2) => Idle

C3_ScalePositive ==
    (~clampZoom /\ options.percent = QOne)
        => (NSign(scale.x) > 0 /\ NSign(scale.y) > 0)

\* C4: pinching implies active; lastCenter is non-null only while pinching,
\* and so are moved and every zoomed or moved emission.
C4_PinchingInvariant ==
    /\ pinching => active
    /\ lastCenter # Null => pinching
    /\ moved => pinching
    /\ (Emitted(trace, "zoomed") \/ Emitted(trace, "moved")) => pinching

\* C4 witness: a committed step in a pinching session.
C4_Witness == Committed /\ pinching /\ active /\ moved /\ lastCenter # Null

\* C5: with the center option set, after every committing move() the
\* position is the one moveCenter(center) produces.
C5_CenterKept ==
    (options.center # Null /\ Committed)
        => position = moveCenter(scale, options.center)

\* C6: a move() with two tracked contacts of which one had no position before
\* the call leaves scale, position, lastCenter and moved as they were, emits
\* no zoomed or moved and calls no clamp; it writes at most the position of
\* the contact matching the event and at most starts pinching.
C6_NoPrematureCommit ==
    [][(op' = "move" /\ TwoTracked /\ MissingLast) =>
         /\ scale' = scale /\ position' = position
         /\ lastCenter' = lastCenter /\ moved' = moved /\ active' = active
         /\ trace' \in {<<>>, <<"pinch-start">>}
         /\ pinching' # pinching => (pinching' /\ trace' = <<"pinch-start">>)
         /\ Len(touches') = Len(touches)
         /\ \A i \in 1..Len(touches) :
              /\ touches'[i].id = touches[i].id
              /\ touches'[i].last # touches[i].last =>
                   /\ i <= 2
                   /\ \A e \in Events(TouchIds, Grid) :
                        move(e, SpecCommits) =>
                          /\ touches[i].id = e.pointerId
                          /\ touches'[i].last = eventToLocal(e.global)]_vars

\* C6 witness: a move() in a pinching session returned with no previous
\* distance, the second contact still without a position.
C6_Witness ==
    /\ op = "move" /\ ret /\ last = Null /\ trace = <<>>
    /\ pinching /\ TwoTracked /\ touches[1].last # Null /\ touches[2].last = Null

\* C7, as claimed: move() returns true only when it commits.
C7_TrueOnlyOnCommit == (op = "move" /\ ret) => Emitted(trace, "zoomed")

\* C7, amended: move() returns true exactly when it runs unpaused and active
\* with at least two contacts in the list, whether it commits or not.
C7_TrueWhenTwoTracked ==
    [][op' = "move" => (ret' <=> (~paused /\ active /\ TwoTracked))]_vars

\* C7 witness: move() returned true without committing, a position missing.
C7_Witness ==
    /\ op = "move" /\ ret /\ ~Emitted(trace, "zoomed") /\ last = Null
    /\ active /\ ~paused /\ TwoTracked /\ MissingLast

\* C8: up() resets the state, emits one pinch-end and returns true iff
\* pinching is true and at most one contact is in the list; otherwise it
\* returns false, emits nothing and leaves the state as it was.
C8_UpResets ==
    [][op' = "up" =>
         IF pinching /\ Len(touches) <= 1
         THEN /\ ret' /\ trace' = <<"pinch-end">>
              /\ ~active' /\ ~pinching' /\ ~moved' /\ lastCenter' = Null
         ELSE /\ ~ret' /\ trace' = <<>>
              /\ UNCHANGED <<active, pinching, moved, lastCenter>>]_vars

\* C8 witness: up() ended a session that had committed a step.
C8_Witness ==
    /\ op = "up" /\ ret /\ trace = <<"pinch-end">> /\ Len(touches) = 1
    /\ commits > 0 /\ Idle

\* C9: after an up() that reset the session, every later call returns, emits
\* and changes the viewport as it does on a recognizer constructed at that
\* moment, also when a contact of the ended session is still in the list.
C9_LikeFresh ==
    (fresh # Null /\ op \in {"down", "move", "up"}) =>
        /\ ret = fresh.ret /\ trace = fresh.trace
        /\ scale = fresh.w.scale /\ position = fresh.w.position

\* C10: a move() whose pointer id is that of neither tracked contact writes
\* no position, emits nothing, calls no clamp and leaves scale and position
\* as they were.
C10_UnmatchedIsNoOp ==
    [][op' = "move" =>
         \A e \in Events(TouchIds, Grid) :
           (/\ move(e, SpecCommits)
            /\ TwoTracked => e.pointerId \notin {touches[1].id, touches[2].id})
             => /\ touches' = touches /\ trace' = <<>>
                /\ scale' = scale /\ position' = position]_vars

\* The recognizer's fields, the touches and the viewport transform of w.
Observed(w) ==
    [active |-> w.active, pinching |-> w.pinching, moved |-> w.moved,
     lastCenter |-> w.lastCenter, touches |-> w.touches, scale |-> w.scale,
     position |-> w.position]

\* C11: in every reachable state, a move() followed by a move() with the same
\* event leaves the recognizer's fields, the contacts' positions and the
\* viewport scale and position as the first move() left them.
C11_RepeatedMoveIdempotent ==
    \A e \in Events(TouchIds, Grid) :
        \A r \in {moveResult(World, e)} :
            representable(r.w) =>
                \A rr \in {moveResult(r.w, e)} :
                    representable(rr.w) => Observed(rr.w) = Observed(r.w)

\* C12: down() returns true and sets active iff at least two contacts are
\* counted at the call; otherwise it returns false and leaves active as it
\* was.  Either way pinching, moved, lastCenter, the contacts and the viewport
\* are unchanged and nothing is emitted.
C12_DownGate ==
    [][op' = "down" =>
         /\ ret' <=> Len(touches) >= 2
         /\ ret' => active'
         /\ ~ret' => active' = active
         /\ trace' = <<>>
         /\ UNCHANGED <<pinching, moved, lastCenter, touches, scale, position>>]_vars

\* C12 witness: down() armed a session with two contacts, nothing else set.
C12_Witness ==
    /\ op = "down" /\ ret /\ active /\ Len(touches) = 2
    /\ ~pinching /\ ~moved /\ lastCenter = Null

\* C13: a move() that runs while the recognizer is paused or not active
\* returns false, writes no contact's position, leaves the viewport and the
\* recognizer's fields as they were, emits nothing and calls no clamp.
C13_PausedOrInactiveNoEffect ==
    [][(op' = "move" /\ (paused \/ ~active)) =>
         /\ ~ret' /\ trace' = <<>>
         /\ UNCHANGED <<touches, scale, position, active, pinching, moved,
                        lastCenter>>]_vars

\* C13 witness: a paused move() returned false in the middle of a session
\* that had committed a step, the session state left as it was.
C13_Witness ==
    /\ op = "move" /\ ~ret /\ trace = <<>> /\ paused
    /\ active /\ pinching /\ moved /\ lastCenter # Null /\ TwoTracked

\* C14: with axis 'x' no step changes the y scale, with axis 'y' no step
\* changes the x scale, and with axis 'all' a committing move() adds the same
\* amount to both.
C14_AxisRestriction ==
    [][/\ options.axis = "x" => scale'.y = scale.y
       /\ options.axis = "y" => scale'.x = scale.x
       /\ (options.axis = "all" /\ op' = "move" /\ Emitted(trace', "zoomed"))
            => NSub(scale'.x, scale.x) = NSub(scale'.y, scale.y)]_vars

\* C14 witness: with axis 'x' a committed step changed the x scale and the y
\* scale is the initial one.
C14_Witness ==
    /\ Committed /\ options.axis = "x"
    /\ scale.x # NInt(1) /\ scale.y = NInt(2)

\* The scale of w on every axis the options make active is below (above) s.
ActiveAxesGrew(w, s) ==
    /\ isAxisX(w) => NLess(w.scale.x, s.x)
    /\ isAxisY(w) => NLess(w.scale.y, s.y)
ActiveAxesShrank(w, s) ==
    /\ isAxisX(w) => NLess(s.x, w.scale.x)
    /\ isAxisY(w) => NLess(s.y, w.scale.y)

\* C15: with percent 1 and positive scales, an unpaused, active move() that
\* finds a previous position on both tracked contacts makes the scale of
\* every active axis grow when the contacts' distance after it exceeds the
\* distance before it, and shrink when it is smaller, a distance of 0 before
\* it included.
C15_ScaleFollowsDistance ==
    [][(/\ op' = "move" /\ ~paused /\ active /\ TwoTracked /\ ~MissingLast
        /\ options.percent = QOne
        /\ NSign(scale.x) > 0 /\ NSign(scale.y) > 0)
         => /\ Distance(touches'[1].last, touches'[2].last)
                 > Distance(touches[1].last, touches[2].last)
                   => ActiveAxesGrew(World, scale')
            /\ Distance(touches'[1].last, touches'[2].last)
                 < Distance(touches[1].last, touches[2].last)
                   => ActiveAxesShrank(World, scale')]_vars

\* How many times name occurs in the trace t.
Times(t, name) == Cardinality({i \in 1..Len(t) : t[i] = name})

\* The position a committing step ends with when it applies no center-delta
\* drag: the one moveCenter(center) gives, or the position before it moved by
\* the anchor-preservation term.
AnchoredOnly(w, s, ts) ==
    IF w.options.center # Null
    THEN moveCenter(s, w.options.center)
    ELSE translated(w, w.position,
                    NPoint(Midpoint(ts[1].last, ts[2].last)),
                    anchorAfterZoom(Midpoint(ts[1].last, ts[2].last),
                                    w.position, w.scale, s))

\* C16: a committing move() with noDrag true, or one that is the first of its
\* session (moved still false), applies no center-delta drag: the position
\* ends as the anchor term or moveCenter leaves it, and moved is emitted at
\* most once.
C16_NoDragTranslation ==
    [][(op' = "move" /\ Emitted(trace', "zoomed") /\ (options.noDrag \/ ~moved))
         => /\ position' = AnchoredOnly(World, scale', touches')
            /\ Times(trace', "moved") <= 1
            /\ Times(trace', "position") <= 1]_vars

\* C16 witness: with noDrag true, a committed step that was not the first
\* one, the contacts apart.
C16_Witness ==
    /\ Committed /\ options.noDrag /\ commits >= 2 /\ options.center = Null
    /\ Times(trace, "moved") = 1
    /\ lastCenter = Midpoint(touches[1].last, touches[2].last)
    /\ touches[1].last # touches[2].last

\* The places of name in the trace t.
Places(t, name) == {i \in 1..Len(t) : t[i] = name}

\* C17: a committing move() writes the scale, then emits zoomed once, then
\* calls clamp() if a clamp-zoom plugin is registered, then translates with
\* 0 to 2 moved events, then writes lastCenter and moved; no translation and
\* no moved comes before zoomed or clamp.
C17_CommitOrder ==
    Committed =>
        /\ trace[1] = "scale" /\ trace[2] = "zoomed"
        /\ Times(trace, "scale") = 1 /\ Times(trace, "zoomed") = 1
        /\ IF clampZoom THEN trace[3] = "clamp" /\ Times(trace, "clamp") = 1
           ELSE Times(trace, "clamp") = 0
        /\ \A i \in Places(trace, "position") \cup Places(trace, "moved")
                    \cup Places(trace, "moveCenter") :
              /\ i > (IF clampZoom THEN 3 ELSE 2)
              /\ i < Len(trace)
        /\ \A i \in Places(trace, "moved") : trace[i - 1] = "position"
        /\ Times(trace, "moved") \in 0..2
        /\ trace[Len(trace)] = "lastCenter" /\ Times(trace, "lastCenter") = 1
        /\ moved /\ lastCenter # Null

\* C17 witness: a committed step with a clamp-zoom plugin, the anchor
\* translation and the drag translation.
C17_Witness ==
    /\ Committed /\ clampZoom
    /\ trace = <<"scale", "zoomed", "clamp", "position", "moved",
                 "position", "moved", "lastCenter">>

\* previousDistance / currentDistance, a current distance of 0 replaced by
\* 0.0000000001.
DistanceRatio(prev, cur) ==
    IF cur = 0 THEN N(QZero, QInt(prev)) ELSE NRat(Q(prev, cur))

\* The step from scale s to scale t under w's options added
\* (1 - ratio) * percent * axisScale to every active axis.
AddedDelta(w, s, t, ratio, axisScale) ==
    /\ isAxisX(w) =>
         t.x = NAdd(s.x, NMul(NMul(NSub(NInt(1), ratio), NRat(w.options.percent)),
                              axisScale))
    /\ isAxisY(w) =>
         t.y = NAdd(s.y, NMul(NMul(NSub(NInt(1), ratio), NRat(w.options.percent)),
                              axisScale))

\* C18, as claimed: a committed step adds
\* (1 - previousDistance / currentDistance) * percent * axisScale to every
\* active axis, axisScale being the x scale with axis 'x' and the y scale
\* with axis 'y' or 'all'.
C18_DeltaFromYUnlessOnlyX ==
    [][(op' = "move" /\ Emitted(trace', "zoomed") /\ ~clampZoom) =>
         AddedDelta(World, scale, scale',
                    DistanceRatio(Distance(touches[1].last, touches[2].last),
                                  Distance(touches'[1].last, touches'[2].last)),
                    IF options.axis = "x" THEN scale.x ELSE scale.y)]_vars

\* C18, amended: axisScale is the x scale with axis 'x' or 'all' and the y
\* scale with axis 'y' only.
C18_DeltaFromXUnlessOnlyY ==
    [][(op' = "move" /\ Emitted(trace', "zoomed") /\ ~clampZoom) =>
         AddedDelta(World, scale, scale',
                    DistanceRatio(Distance(touches[1].last, touches[2].last),
                                  Distance(touches'[1].last, touches'[2].last)),
                    IF options.axis = "y" THEN scale.y ELSE scale.x)]_vars

\* C18 witness: with axis 'all', percent 1/2 and unequal scales a committed
\* step changed both scales.
C18_Witness ==
    /\ Committed /\ options.axis = "all" /\ options.percent = Q(1, 2)
    /\ scale.x # NInt(1) /\ scale.y # NInt(2) /\ IsRat(scale.x)

\* C19: pinch-start and pinch-end alternate, pinch-start first, and zoomed
\* and moved are emitted only between a pinch-start and the next pinch-end.
\* pinching is false at construction and changes in exactly the steps that
\* emit one of the two, so it tells whether a pinch-start is still unmatched:
\* pinch-start is emitted once, by a step from pinching false to true;
\* pinch-end once, by a step from pinching true to false; zoomed and moved by
\* steps that begin and end with pinching true.
C19_StartEndAlternate ==
    [][/\ Emitted(trace', "pinch-start")
            => (~pinching /\ pinching' /\ Times(trace', "pinch-start") = 1
                /\ ~Emitted(trace', "pinch-end"))
       /\ Emitted(trace', "pinch-end")
            => (pinching /\ ~pinching' /\ Times(trace', "pinch-end") = 1
                /\ ~Emitted(trace', "pinch-start"))
       /\ pinching' # pinching
            => (Emitted(trace', "pinch-start") \/ Emitted(trace', "pinch-end"))
       /\ (Emitted(trace', "zoomed") \/ Emitted(trace', "moved"))
            => (pinching /\ pinching'
                /\ ~Emitted(trace', "pinch-start") /\ ~Emitted(trace', "pinch-end"))]_vars

\* C19 witness: a pinch-start after an earlier session committed a step and
\* ended, a third contact in the list.
C19_Witness ==
    /\ op = "move" /\ trace = <<"pinch-start">> /\ pinching
    /\ commits >= 1 /\ ~moved /\ Len(touches) = 3

\* C20: a committing move() that applies the center-delta drag subtracts a
\* lastCenter that was written for the two contacts it tracks now.
C20_CenterOfSamePair ==
    [][(op' = "move" /\ Emitted(trace', "zoomed") /\ Times(trace', "moved") = 2)
         => centerPair = trackedPair(touches)]_vars

====
